---- MODULE Spec2Model ----
(***************************************************************************)
(* A model of kernel/arch/x64/thread.rs of kerla: the per-thread saved     *)
(* state (struct Thread), the stack layouts its constructors and the       *)
(* signal injection build with push_stack, and switch_thread.              *)
(*                                                                         *)
(* Memory is a partial map from byte addresses of 64-bit words to words;   *)
(* a word that was never written is not in its domain.  TLC's integers are *)
(* 32 bits wide, so the kernel's virtual addresses are scaled down         *)
(* (KERNEL_BASE_ADDR); register values are only copied, never computed     *)
(* with, and are drawn from small sets of distinct numbers.                *)
(***************************************************************************)
EXTENDS Integers, Sequences, FiniteSets, TLC

\* ------------------------------------------------------------------ bounds
\* Spec: every operation, on the idle thread and one more.
\* The number of Thread objects (the idle thread included).
MaxThreads == 2
\* The number of calls of set_signal_entry.
MaxSignals == 2
\* The number of calls of the constructors, fork, set_signal_entry and
\* switch_thread together.
MaxOps == 4
\* The number of times user code rewrites the live extended registers.
MaxXWrites == 1

\* SpecSwitch: constructors, fork and switch_thread on three threads.
SwitchThreads == 3
SwitchOps == 5

\* SpecLayout: the frames the constructors, fork and set_signal_entry build,
\* over the wide inputs.
LayoutThreads == 2
LayoutSignals == 1
ManySignals == 37

\* --------------------------------------------------------------- constants
PAGE_SIZE == 4096
KERNEL_STACK_SIZE == PAGE_SIZE
\* The offset of the kernel's straight mapping (scaled to TLC's integers).
KERNEL_BASE_ADDR == 1048576
\* The stack the core boots on (set up by the boot code, before any Thread).
BOOT_STACK_TOP == 1044480

\* Segment selectors of gdt.rs.
USER_DS == 32
USER_CS64 == 40
USER_RPL == 3

\* The addresses of the extern "C" entry points, and of the instruction that
\* follows the call of do_switch_thread in switch_thread.
kthread_entry == 900001
userland_entry == 900002
forked_child_entry == 900003
signal_handler_entry == 900004
direct_signal_handler_entry == 900005
switch_thread_ret == 900006

RFLAGS_IF_OFF == 2
RFLAGS_IF_ON == 514
RSP3_POISON == 47789

\* The value standing for u64::MAX (all ones) in the inputs.
ALL_ONES == 65535

\* ----------------------------------------------------------------- helpers
RECURSIVE BitOr(_, _)
BitOr(a, b) ==
    IF a = 0 THEN b
    ELSE IF b = 0 THEN a
    ELSE (IF (a % 2 = 1) \/ (b % 2 = 1) THEN 1 ELSE 0) + 2 * BitOr(a \div 2, b \div 2)

Some(a) == <<a>>
None == <<>>
IsSome(o) == Len(o) = 1
Unwrap(o) == o[1]

\* PAddr::as_vaddr: the straight mapping.
as_vaddr(paddr) == paddr + KERNEL_BASE_ADDR

\* A write of one word.
Write(m, a, v) == [x \in (DOMAIN m) \cup {a} |-> IF x = a THEN v ELSE m[x]]

\* push_stack: st is the pair (rsp, memory) the raw pointer stands for.
push_stack(st, value) ==
    [rsp |-> st.rsp - 8, mem |-> Write(st.mem, st.rsp - 8, value)]

\* The pushes of the values of a sequence, first to last.
RECURSIVE PushAll(_, _)
PushAll(st, vals) ==
    IF vals = <<>> THEN st
    ELSE PushAll(push_stack(st, Head(vals)), Tail(vals))

\* The n words read upward from address a; a word that holds nothing reads as
\* -1 (no program value is negative).
Word(m, a) == IF a \in DOMAIN m THEN m[a] ELSE -1
Words(m, a, n) == [i \in 1..n |-> Word(m, a + 8 * (i - 1))]

\* Words below the stack pointer do not survive: the kernel has no red zone,
\* and an interrupt taken in kernel mode pushes its frame there.  A pop
\* therefore leaves the popped words holding nothing.
Erase(m, a, n) ==
    [x \in (DOMAIN m) \ {a + 8 * i : i \in 0..(n - 1)} |-> m[x]]
EraseRange(m, lo, hi) ==
    [x \in {y \in DOMAIN m : y < lo \/ y >= hi} |-> m[x]]

\* ------------------------------------------------------------------ inputs
\* Entry points handed to new_kthread.
KthreadIps == {800001, 800002, 0, ALL_ONES}
\* (ip, sp) pairs handed to new_user_thread.
UserStarts == {<<4198400, 8384512>>, <<8384512, 4198400>>, <<0, ALL_ONES>>}
\* SyscallFrames handed to fork: every field distinct, all zero, all ones, and
\* zeros and ones in turn.
FrameFields ==
    <<"rip", "rsp", "rflags", "rdx", "rdi", "rsi", "r8", "r9", "r10",
      "rbp", "rbx", "r12", "r13", "r14", "r15">>
FrameOf(f) ==
    [rip |-> f[1], rsp |-> f[2], rflags |-> f[3], rdx |-> f[4], rdi |-> f[5],
     rsi |-> f[6], r8 |-> f[7], r9 |-> f[8], r10 |-> f[9], rbp |-> f[10],
     rbx |-> f[11], r12 |-> f[12], r13 |-> f[13], r14 |-> f[14], r15 |-> f[15]]
DistinctFrame == FrameOf([i \in 1..15 |-> 7000 + i])
SyscallFrames ==
    { DistinctFrame,
      FrameOf([i \in 1..15 |-> 0]),
      FrameOf([i \in 1..15 |-> ALL_ONES]),
      FrameOf([i \in 1..15 |-> IF i % 2 = 0 THEN 0 ELSE ALL_ONES]) }
\* (user_rip, user_rsp, arg1, arg2, arg3) handed to set_signal_entry.
SignalArgs ==
    {<<5001, 5002, 5003, 5004, 5005>>, <<0, ALL_ONES, 0, ALL_ONES, 0>>,
     <<ALL_ONES, 0, ALL_ONES, 0, ALL_ONES>>}
\* The inputs of Spec and SpecSwitch: one of each.
OneIp == {800001}
OneStart == {<<4198400, 8384512>>}
OneFrame == {DistinctFrame}
\* The signal Spec delivers after n others: its values tell the deliveries
\* apart.
NthSignal(n) ==
    <<5001 + 10 * n, 5002 + 10 * n, 5003 + 10 * n, 5004 + 10 * n, 5005 + 10 * n>>

\* The components of the extended register state and the values of one.
XComponents == {"x87", "avx"}
XImages == [XComponents -> 0..1]
XZero == [c \in XComponents |-> 0]
\* What the pages of alloc_pages(_, AllocPageFlags::KERNEL) may hold, read as
\* an XSAVE image: the allocation is not asked to be zeroed.
FreshImages == {XZero, [c \in XComponents |-> 1]}

\* ------------------------------------------------------------------- state
VARIABLES
    threads,     \* id -> struct Thread
    run,         \* id -> "Fresh" | "Suspended" | "Running"
    lock,        \* id -> whether the SpinLock of the Thread is held
    mem,         \* address -> word (kernel stacks)
    xsave_mem,   \* address of an XSAVE area -> the image it holds
    next_page,   \* the page allocator: the next page it hands out
    page_image,  \* what the pages it hands out hold, read as an XSAVE image
    kstack,      \* the kernel stack a caller allocated for a constructor
    xregs,       \* the live extended registers
    xcr0,        \* the feature mask (XCR0)
    head_rsp0,   \* cpu_local_head().rsp0
    head_rsp3,   \* cpu_local_head().rsp3
    tss_rsp0,    \* TSS.rsp0
    fsbase_reg,  \* the FS base register
    cpu,         \* the general registers of the core
    pc,          \* where the core is
    panicked,    \* an expect() failed
    sig,         \* the call of set_signal_entry in progress
    nsig,        \* calls of set_signal_entry made
    nxw,         \* writes of the extended registers made
    last,        \* the last operation and its arguments
    swlog,       \* the calls of switch_thread made with no other operation
                 \* of this module and no write of the extended registers
                 \* between them (at most the last two)
    nops         \* operations of this module called

vars ==
    <<threads, run, lock, mem, xsave_mem, next_page, page_image, kstack, xregs, xcr0,
      head_rsp0, head_rsp3, tss_rsp0, fsbase_reg, cpu, pc, panicked, sig,
      nsig, nxw, last, swlog, nops>>

Ids == DOMAIN threads
NewId == Cardinality(DOMAIN threads)
NoSig == [active |-> FALSE]
Op(name, a, b, args) == [op |-> name, a |-> a, b |-> b, args |-> args]

\* alloc_pages(1, KERNEL): the k-th page (from 0) a function allocates.
alloc_pages(k) == (next_page + k) * PAGE_SIZE

\* .expect() on a failed allocation: the kernel panics and stops.
Panic(name) ==
    /\ panicked' = TRUE
    /\ last' = Op(name, -1, -1, <<>>)
    /\ swlog' = <<>>
    /\ UNCHANGED <<threads, run, lock, mem, xsave_mem, next_page, kstack, page_image,
                   xregs, xcr0, head_rsp0, head_rsp3, tss_rsp0, fsbase_reg,
                   cpu, pc, sig, nsig, nxw, nops>>

Thread(rsp, fsbase, xsave_area, interrupt_stack, syscall_stack) ==
    [rsp |-> rsp, fsbase |-> fsbase, xsave_area |-> xsave_area,
     interrupt_stack |-> interrupt_stack, syscall_stack |-> syscall_stack]

\* A new Thread enters the model under the next id.
AddThread(t, state) ==
    /\ threads' = [i \in Ids \cup {NewId} |-> IF i = NewId THEN t ELSE threads[i]]
    /\ run' = [i \in Ids \cup {NewId} |-> IF i = NewId THEN state ELSE run[i]]
    /\ lock' = [i \in Ids \cup {NewId} |-> IF i = NewId THEN FALSE ELSE lock[i]]

CpuZero ==
    [rsp |-> 0, rip |-> 0, rflags |-> 0, cs |-> 0, ss |-> 0,
     rbp |-> 0, rbx |-> 0, r12 |-> 0, r13 |-> 0, r14 |-> 0, r15 |-> 0,
     rdx |-> 0, rdi |-> 0, rsi |-> 0, r8 |-> 0, r9 |-> 0, r10 |-> 0,
     rcx |-> 0, r11 |-> 0]

Init ==
    /\ threads = <<>>
    /\ run = <<>>
    /\ lock = <<>>
    /\ mem = <<>>
    /\ xsave_mem = <<>>
    /\ next_page = 1
    /\ page_image \in FreshImages
    /\ kstack = None
    /\ xregs = XZero
    /\ xcr0 = {"x87"}
    /\ head_rsp0 = 0
    /\ head_rsp3 = 0
    /\ tss_rsp0 = 0
    /\ fsbase_reg = 0
    /\ cpu = [CpuZero EXCEPT !.rsp = BOOT_STACK_TOP, !.rflags = RFLAGS_IF_OFF]
    /\ pc = "boot"
    /\ panicked = FALSE
    /\ sig = NoSig
    /\ nsig = 0
    /\ nxw = 0
    /\ last = Op("init", -1, -1, <<>>)
    /\ swlog = <<>>
    /\ nops = 0

\* ------------------------------------------------------------ constructors
\* The core is in kernel code that may call into this module.
InKernel == ~panicked /\ pc = "kernel"

\* The caller of new_kthread and new_user_thread allocates the kernel stack
\* the thread starts on and passes its top.
alloc_kernel_stack ==
    /\ InKernel
    /\ kstack = None
    /\ \/ Panic("alloc_kernel_stack")
       \/ /\ kstack' = Some(as_vaddr(alloc_pages(0)) + KERNEL_STACK_SIZE)
          /\ next_page' = next_page + 1
          /\ nops' = nops
          /\ last' = Op("alloc_kernel_stack", -1, -1, <<>>)
          /\ swlog' = <<>>
          /\ UNCHANGED <<page_image, threads, run, lock, mem, xsave_mem, xregs, xcr0,
                         head_rsp0, head_rsp3, tss_rsp0, fsbase_reg, cpu, pc,
                         panicked, sig, nsig, nxw>>

\* The frame with kthread_entry pushed last but one, so that it would be
\* popped right after the flags and before the six zeros.
KthreadLayoutIpAfterFlags(ip) ==
    <<ip, 0, 0, 0, 0, 0, 0, kthread_entry, RFLAGS_IF_OFF>>

\* The words new_kthread pushes, first to last.
KthreadLayout(ip) ==
    <<ip, kthread_entry, 0, 0, 0, 0, 0, 0, RFLAGS_IF_OFF>>

new_kthread(ip, sp) ==
    /\ InKernel
    /\ \/ Panic("new_kthread")
       \/ LET interrupt_stack == as_vaddr(alloc_pages(0))
              syscall_stack == as_vaddr(alloc_pages(1))
              st == PushAll([rsp |-> sp, mem |-> mem], KthreadLayout(ip))
          IN  /\ next_page' = next_page + 2
              /\ mem' = st.mem
              /\ AddThread(Thread(st.rsp, 0, None, interrupt_stack, syscall_stack),
                           "Fresh")
              /\ kstack' = None
              /\ nops' = nops + 1
              /\ last' = Op("new_kthread", NewId, -1, <<ip, sp>>)
              /\ swlog' = <<>>
              /\ UNCHANGED <<page_image, xsave_mem, xregs, xcr0, head_rsp0, head_rsp3,
                             tss_rsp0, fsbase_reg, cpu, pc, panicked, sig,
                             nsig, nxw>>

\* The frame with the two flags values in each other's slot.
UserLayoutFlagsSwapped(ip, sp) ==
    <<BitOr(USER_DS, USER_RPL), sp, RFLAGS_IF_OFF, BitOr(USER_CS64, USER_RPL), ip,
      userland_entry, 0, 0, 0, 0, 0, 0, RFLAGS_IF_ON>>

\* The frame with the entry point and the user stack top in each other's slot.
UserLayoutSwapped(ip, sp) ==
    <<BitOr(USER_DS, USER_RPL), ip, RFLAGS_IF_ON, BitOr(USER_CS64, USER_RPL), sp,
      userland_entry, 0, 0, 0, 0, 0, 0, RFLAGS_IF_OFF>>

\* The words new_user_thread pushes, first to last.
UserLayout(ip, sp) ==
    <<BitOr(USER_DS, USER_RPL), sp, RFLAGS_IF_ON, BitOr(USER_CS64, USER_RPL), ip,
      userland_entry, 0, 0, 0, 0, 0, 0, RFLAGS_IF_OFF>>

new_user_thread(ip, sp, kernel_sp) ==
    /\ InKernel
    /\ \/ Panic("new_user_thread")
       \/ LET image == page_image
              interrupt_stack == as_vaddr(alloc_pages(0))
              syscall_stack == as_vaddr(alloc_pages(1))
              xsave_area == as_vaddr(alloc_pages(2))
              st == PushAll([rsp |-> kernel_sp, mem |-> mem], UserLayout(ip, sp))
          IN  /\ next_page' = next_page + 3
              /\ mem' = st.mem
              /\ xsave_mem' = [a \in (DOMAIN xsave_mem) \cup {xsave_area} |->
                                  IF a = xsave_area THEN image ELSE xsave_mem[a]]
              /\ AddThread(Thread(st.rsp, 0, Some(xsave_area), interrupt_stack,
                                  syscall_stack), "Fresh")
              /\ kstack' = None
              /\ nops' = nops + 1
              /\ last' = Op("new_user_thread", NewId, -1, <<ip, sp, kernel_sp>>)
              /\ swlog' = <<>>
              /\ UNCHANGED <<page_image, xregs, xcr0, head_rsp0, head_rsp3, tss_rsp0,
                             fsbase_reg, cpu, pc, panicked, sig, nsig, nxw>>

\* The idle thread is the flow the core boots on: it is running when made.
new_idle_thread ==
    /\ ~panicked
    /\ pc = "boot"
    /\ \/ Panic("new_idle_thread")
       \/ LET interrupt_stack == as_vaddr(alloc_pages(0))
              syscall_stack == as_vaddr(alloc_pages(1))
          IN  /\ next_page' = next_page + 2
              /\ AddThread(Thread(0, 0, None, interrupt_stack, syscall_stack),
                           "Running")
              /\ pc' = "kernel"
              /\ nops' = nops
              /\ last' = Op("new_idle_thread", NewId, -1, <<>>)
              /\ swlog' = <<>>
              /\ UNCHANGED <<page_image, mem, xsave_mem, kstack, xregs, xcr0, head_rsp0,
                             head_rsp3, tss_rsp0, fsbase_reg, cpu, panicked,
                             sig, nsig, nxw>>

\* The thread that is running on the core.
IsRunning(c) == c \in Ids /\ run[c] = "Running"

\* The frame with the r11 and rcx slots holding each other's value.
ForkLayoutRcxR11Swapped(frame) ==
    <<BitOr(USER_DS, USER_RPL), frame.rsp, frame.rflags,
      BitOr(USER_CS64, USER_RPL), frame.rip,
      frame.rip, frame.rflags, frame.r10, frame.r9, frame.r8, frame.rsi,
      frame.rdi, frame.rdx,
      forked_child_entry, frame.rbp, frame.rbx, frame.r12, frame.r13,
      frame.r14, frame.r15, RFLAGS_IF_OFF>>

\* The words fork pushes, first to last.
ForkLayout(frame) ==
    <<BitOr(USER_DS, USER_RPL), frame.rsp, frame.rflags,
      BitOr(USER_CS64, USER_RPL), frame.rip,
      frame.rflags, frame.rip, frame.r10, frame.r9, frame.r8, frame.rsi,
      frame.rdi, frame.rdx,
      forked_child_entry, frame.rbp, frame.rbx, frame.r12, frame.r13,
      frame.r14, frame.r15, RFLAGS_IF_OFF>>

\* self.fork(frame): every allocation is unwrapped with expect(), so the only
\* value returned is Ok(Thread).
fork(self, frame) ==
    /\ InKernel
    /\ IsRunning(self)
    /\ ~lock[self]
    /\ kstack = None
    /\ \/ Panic("fork")
       \/ LET image == page_image
              xsave_area == as_vaddr(alloc_pages(0))
              kernel_sp == alloc_pages(1)
              st == PushAll([rsp |-> as_vaddr(kernel_sp), mem |-> mem],
                            ForkLayout(frame))
              interrupt_stack == as_vaddr(alloc_pages(2))
              syscall_stack == as_vaddr(alloc_pages(3))
          IN  /\ next_page' = next_page + 4
              /\ mem' = st.mem
              /\ xsave_mem' = [a \in (DOMAIN xsave_mem) \cup {xsave_area} |->
                                  IF a = xsave_area THEN image ELSE xsave_mem[a]]
              /\ AddThread(Thread(st.rsp, threads[self].fsbase, Some(xsave_area),
                                  interrupt_stack, syscall_stack), "Fresh")
              /\ nops' = nops + 1
              /\ last' = Op("fork", NewId, self,
                            [i \in 1..15 |-> frame[FrameFields[i]]])
              /\ swlog' = <<>>
              /\ UNCHANGED <<page_image, kstack, xregs, xcr0, head_rsp0, head_rsp3,
                             tss_rsp0, fsbase_reg, cpu, pc, panicked, sig,
                             nsig, nxw>>

\* -------------------------------------------------------- signal injection
\* The layer with arg1 and arg3 in each other's slot.
SignalLayoutArgsReversed(user_rip, user_rsp, arg1, arg2, arg3) ==
    <<user_rsp, user_rip, RFLAGS_IF_ON, arg3, arg2, arg1>>

\* The words set_signal_entry pushes for signal_handler_entry, first to last.
SignalLayout(user_rip, user_rsp, arg1, arg2, arg3) ==
    <<user_rsp, user_rip, RFLAGS_IF_ON, arg1, arg2, arg3>>

\* The words for do_switch_thread without the flags: seven words.
SignalSwitchLayoutNoFlags ==
    <<signal_handler_entry, 0, 0, 0, 0, 0, 0>>

\* The words it pushes for do_switch_thread when the thread is not the
\* current one, first to last.
SignalSwitchLayout ==
    <<signal_handler_entry, 0, 0, 0, 0, 0, 0, RFLAGS_IF_OFF>>

SIGNAL_TMP_LEN == 8

\* The call, made in kernel code, up to the branch on is_current_process: the
\* caller holds the lock of the thread and passes the guard; is_current_process
\* says whether the thread is the one running.  tmp is a local array on the
\* stack the core runs on, filled with zeros; rsp starts at its end or at
\* this.rsp, and the six words of signal_handler_entry are pushed.
set_signal_entry(this, user_rip, user_rsp, arg1, arg2, arg3, is_current_process) ==
    /\ InKernel
    /\ ~sig.active
    /\ this \in Ids
    /\ ~lock[this]
    /\ is_current_process = IsRunning(this)
    /\ LET tmp == cpu.rsp - 8 * SIGNAL_TMP_LEN
           zeroed == [a \in (DOMAIN mem) \cup {tmp + 8 * i : i \in 0..(SIGNAL_TMP_LEN - 1)} |->
                         IF a >= tmp /\ a < cpu.rsp THEN 0 ELSE mem[a]]
           rsp == IF is_current_process THEN tmp + 8 * SIGNAL_TMP_LEN
                  ELSE threads[this].rsp
           st == PushAll([rsp |-> rsp,
                          mem |-> IF is_current_process THEN zeroed ELSE mem],
                         SignalLayout(user_rip, user_rsp, arg1, arg2, arg3))
       IN  /\ mem' = st.mem
           /\ sig' = [active |-> TRUE, this |-> this,
                      is_current_process |-> is_current_process,
                      start |-> rsp, rsp |-> st.rsp,
                      stage |-> IF is_current_process THEN "drop" ELSE "switch_frame"]
    /\ lock' = [lock EXCEPT ![this] = TRUE]
    /\ pc' = "set_signal_entry"
    /\ nsig' = nsig + 1
    /\ nops' = nops + 1
    /\ last' = Op("set_signal_entry", this, -1,
                  <<user_rip, user_rsp, arg1, arg2, arg3>>)
    /\ swlog' = <<>>
    /\ UNCHANGED <<page_image, threads, run, xsave_mem, next_page, kstack, xregs, xcr0,
                   head_rsp0, head_rsp3, tss_rsp0, fsbase_reg, cpu, panicked, nxw>>

\* The path of the current process with the guard leaked instead of dropped:
\* the lock stays held.
set_signal_entry_forget ==
    /\ ~panicked
    /\ sig.active
    /\ sig.stage = "drop"
    /\ sig' = [sig EXCEPT !.stage = "jmp"]
    /\ nops' = nops
    /\ last' = Op("drop", sig.this, -1, <<>>)
    /\ swlog' = <<>>
    /\ UNCHANGED <<page_image, threads, run, lock, mem, xsave_mem, next_page, kstack,
                   xregs, xcr0, head_rsp0, head_rsp3, tss_rsp0, fsbase_reg, cpu, pc,
                   panicked, nsig, nxw>>

\* The path of the current process with this.rsp assigned before the guard is
\* dropped, as on the other path.
set_signal_entry_assign_drop ==
    /\ ~panicked
    /\ sig.active
    /\ sig.stage = "drop"
    /\ threads' = [threads EXCEPT ![sig.this].rsp = sig.rsp]
    /\ lock' = [lock EXCEPT ![sig.this] = FALSE]
    /\ sig' = [sig EXCEPT !.stage = "jmp"]
    /\ nops' = nops
    /\ last' = Op("drop", sig.this, -1, <<>>)
    /\ swlog' = <<>>
    /\ UNCHANGED <<page_image, run, mem, xsave_mem, next_page, kstack, xregs,
                   xcr0, head_rsp0, head_rsp3, tss_rsp0, fsbase_reg, cpu, pc,
                   panicked, nsig, nxw>>

\* drop(this) on the path of the current process.
set_signal_entry_drop ==
    /\ ~panicked
    /\ sig.active
    /\ sig.stage = "drop"
    /\ lock' = [lock EXCEPT ![sig.this] = FALSE]
    /\ sig' = [sig EXCEPT !.stage = "jmp"]
    /\ nops' = nops
    /\ last' = Op("drop", sig.this, -1, <<>>)
    /\ swlog' = <<>>
    /\ UNCHANGED <<page_image, threads, run, mem, xsave_mem, next_page, kstack, xregs,
                   xcr0, head_rsp0, head_rsp3, tss_rsp0, fsbase_reg, cpu, pc,
                   panicked, nsig, nxw>>

\* mov rsp, rax; jmp direct_signal_handler_entry: the call never returns.
set_signal_entry_jmp ==
    /\ ~panicked
    /\ sig.active
    /\ sig.stage = "jmp"
    /\ cpu' = [cpu EXCEPT !.rsp = sig.rsp, !.rip = direct_signal_handler_entry]
    /\ pc' = "direct_signal_handler_entry"
    /\ sig' = NoSig
    /\ nops' = nops
    /\ last' = Op("jmp", sig.this, -1, <<sig.rsp>>)
    /\ swlog' = <<>>
    /\ UNCHANGED <<threads, run, lock, mem, xsave_mem, next_page, kstack, page_image,
                   xregs, xcr0, head_rsp0, head_rsp3, tss_rsp0, fsbase_reg,
                   panicked, nsig, nxw>>

\* The path of another process with this.rsp assigned before the eight words
\* of do_switch_thread are pushed.
set_signal_entry_publish_early ==
    /\ ~panicked
    /\ sig.active
    /\ sig.stage = "switch_frame"
    /\ threads' = [threads EXCEPT ![sig.this].rsp = sig.rsp - 8 * 8]
    /\ sig' = [sig EXCEPT !.rsp = sig.rsp - 8 * 8, !.stage = "publish"]
    /\ nops' = nops
    /\ last' = Op("switch_frame", sig.this, -1, <<>>)
    /\ swlog' = <<>>
    /\ UNCHANGED <<page_image, run, lock, mem, xsave_mem, next_page, kstack, xregs,
                   xcr0, head_rsp0, head_rsp3, tss_rsp0, fsbase_reg, cpu, pc,
                   panicked, nsig, nxw>>

\* The eight words of do_switch_thread, on the path of another process.
set_signal_entry_switch_frame ==
    /\ ~panicked
    /\ sig.active
    /\ sig.stage = "switch_frame"
    /\ LET st == PushAll([rsp |-> sig.rsp, mem |-> mem], SignalSwitchLayout)
       IN  /\ mem' = st.mem
           /\ sig' = [sig EXCEPT !.rsp = st.rsp, !.stage = "publish"]
    /\ nops' = nops
    /\ last' = Op("switch_frame", sig.this, -1, <<>>)
    /\ swlog' = <<>>
    /\ UNCHANGED <<page_image, threads, run, lock, xsave_mem, next_page, kstack, xregs,
                   xcr0, head_rsp0, head_rsp3, tss_rsp0, fsbase_reg, cpu, pc,
                   panicked, nsig, nxw>>

\* The return without the assignment to this.rsp.
set_signal_entry_return_only ==
    /\ ~panicked
    /\ sig.active
    /\ sig.stage = "publish"
    /\ lock' = [lock EXCEPT ![sig.this] = FALSE]
    /\ sig' = NoSig
    /\ pc' = "kernel"
    /\ nops' = nops
    /\ last' = Op("publish", sig.this, -1, <<sig.start, sig.rsp>>)
    /\ swlog' = <<>>
    /\ UNCHANGED <<page_image, threads, run, mem, xsave_mem, next_page, kstack, xregs,
                   xcr0, head_rsp0, head_rsp3, tss_rsp0, fsbase_reg, cpu,
                   panicked, nsig, nxw>>

\* this.rsp = rsp as u64; then the function returns, the guard goes out of
\* scope and the lock is released.
set_signal_entry_publish ==
    /\ ~panicked
    /\ sig.active
    /\ sig.stage = "publish"
    /\ threads' = [threads EXCEPT ![sig.this].rsp = sig.rsp]
    /\ lock' = [lock EXCEPT ![sig.this] = FALSE]
    /\ sig' = NoSig
    /\ pc' = "kernel"
    /\ nops' = nops
    /\ last' = Op("publish", sig.this, -1, <<sig.start, sig.rsp>>)
    /\ swlog' = <<>>
    /\ UNCHANGED <<page_image, run, mem, xsave_mem, next_page, kstack, xregs, xcr0,
                   head_rsp0, head_rsp3, tss_rsp0, fsbase_reg, cpu,
                   panicked, nsig, nxw>>

\* ----------------------------------------------------------- the switcher
\* A save that stores nothing.
xsave64_none(area, live, mask) == area

\* _xsave64(area, mask): the components the mask names are stored.
xsave64(area, live, mask) ==
    [c \in XComponents |-> IF c \in mask THEN live[c] ELSE area[c]]

\* _xrstor64(area, mask): the components the mask names are loaded.
xrstor64(live, area, mask) ==
    [c \in XComponents |-> IF c \in mask THEN area[c] ELSE live[c]]

\* Where the ret of do_switch_thread lands.
Landing(rip) ==
    CASE rip = switch_thread_ret -> "kernel"
      [] rip = kthread_entry -> "kthread_entry"
      [] rip = userland_entry -> "userland_entry"
      [] rip = forked_child_entry -> "forked_child_entry"
      [] rip = signal_handler_entry -> "signal_handler_entry"
      [] OTHER -> "fault"

\* The run states of a call that would leave the thread it switches from
\* running.
ExchangeNextOnly(r, prev, next) == [r EXCEPT ![next] = "Running"]

\* The run states after do_switch_thread: the thread whose stack the core
\* left is suspended, the one whose stack it entered runs.
Exchange(r, prev, next) ==
    [[r EXCEPT ![prev] = "Suspended"] EXCEPT ![next] = "Running"]

\* do_switch_thread(prev_rsp, next_rsp), called from switch_thread: the call
\* pushes the return address; the routine pushes rbp, rbx, r12..r15 and the
\* flags on the stack the core runs on, stores the stack pointer through
\* prev_rsp, loads it through next_rsp, pops the flags and r15..r12, rbx, rbp
\* and returns.  prev_rsp and next_rsp are the threads whose rsp field the
\* pointers point at.  The thread whose stack is left is suspended; the one
\* whose stack is entered runs.
do_switch_thread(prev_rsp, next_rsp) ==
    LET saved == PushAll([rsp |-> cpu.rsp, mem |-> mem],
                         <<switch_thread_ret, cpu.rbp, cpu.rbx, cpu.r12,
                           cpu.r13, cpu.r14, cpu.r15, cpu.rflags>>)
        stored == [threads EXCEPT ![prev_rsp].rsp = saved.rsp]
        sp == stored[next_rsp].rsp
        w == Words(saved.mem, sp, 8)
    IN  /\ mem' = Erase(saved.mem, sp, 8)
        /\ threads' = stored
        /\ cpu' = [cpu EXCEPT !.rflags = w[1], !.r15 = w[2], !.r14 = w[3],
                              !.r13 = w[4], !.r12 = w[5], !.rbx = w[6],
                              !.rbp = w[7], !.rip = w[8], !.rsp = sp + 64]
        /\ pc' = Landing(w[8])
        /\ run' = Exchange(run, prev_rsp, next_rsp)
        /\ nops' = nops + 1
        /\ last' = Op("switch_thread", prev_rsp, next_rsp, <<saved.rsp, sp>>)

\* What swlog keeps of a call of switch_thread: the state it found.
SwitchSnapshot(prev, next) ==
    [prev |-> prev, next |-> next, xregs |-> xregs,
     prev_area |-> IF IsSome(threads[prev].xsave_area)
                   THEN Some(xsave_mem[Unwrap(threads[prev].xsave_area)]) ELSE None,
     next_area |-> IF IsSome(threads[next].xsave_area)
                   THEN Some(xsave_mem[Unwrap(threads[next].xsave_area)]) ELSE None]

\* if let Some(xsave_area) = prev.xsave_area: _xsave64 into it; with None the
\* memory is left alone.
Saved(prev_area, memory, live, mask) ==
    IF IsSome(prev_area)
    THEN [memory EXCEPT ![Unwrap(prev_area)] =
             xsave64(memory[Unwrap(prev_area)], live, mask)]
    ELSE memory

\* A restore that puts the registers in their initial state when the thread
\* has no area.
RestoredOrReset(next_area, memory, live, mask) ==
    IF IsSome(next_area)
    THEN xrstor64(live, memory[Unwrap(next_area)], mask)
    ELSE XZero

\* if let Some(xsave_area) = next.xsave_area: _xrstor64 from it; with None the
\* registers are left alone.
Restored(next_area, memory, live, mask) ==
    IF IsSome(next_area)
    THEN xrstor64(live, memory[Unwrap(next_area)], mask)
    ELSE live

\* The restore made first and the save second.
XrstorThenXsave(prev_area, next_area, memory, live, mask) ==
    LET loaded == Restored(next_area, memory, live, mask)
    IN  [mem |-> Saved(prev_area, memory, loaded, mask), live |-> loaded]

\* The unsafe block of switch_thread: the save into the area of prev, then
\* the restore from the area of next.
XsaveThenXrstor(prev_area, next_area, memory, live, mask) ==
    LET saved == Saved(prev_area, memory, live, mask)
    IN  [mem |-> saved, live |-> Restored(next_area, saved, live, mask)]

\* The stack tops of the thread switched from.
KernelStacksOfPrev(prev, next) ==
    [rsp0 |-> threads[prev].syscall_stack + KERNEL_STACK_SIZE,
     tss_rsp0 |-> threads[prev].interrupt_stack + KERNEL_STACK_SIZE]

\* What switch_thread writes to head.rsp0 and TSS.rsp0: the tops of the
\* syscall stack and of the interrupt stack of next.
KernelStacks(prev, next) ==
    [rsp0 |-> threads[next].syscall_stack + KERNEL_STACK_SIZE,
     tss_rsp0 |-> threads[next].interrupt_stack + KERNEL_STACK_SIZE]

\* A call with any two threads, whichever is running.
AnyCall(prev, next) ==
    /\ prev \in Ids
    /\ next \in Ids \ {prev}
    /\ ~lock[prev] /\ ~lock[next]

\* The calls the scheduler makes: the running thread as prev and another
\* thread as next; &mut Thread is reached through the lock of each.
SchedulerCall(prev, next) ==
    /\ IsRunning(prev)
    /\ next \in Ids \ {prev}
    /\ ~lock[prev] /\ ~lock[next]

\* A load of the FS base from the thread the core leaves.
FsbaseOfPrev(prev, next) == threads[prev].fsbase

\* wrfsbase(next.fsbase): the value the FS base register is loaded with.
FsbaseOfNext(prev, next) == threads[next].fsbase

\* switch_thread(prev, next), called in kernel code.
switch_thread(prev, next) ==
    /\ InKernel
    /\ SchedulerCall(prev, next)
    /\ head_rsp0' = KernelStacks(prev, next).rsp0
    /\ tss_rsp0' = KernelStacks(prev, next).tss_rsp0
    /\ LET xsave_mask == xcr0
           x == XsaveThenXrstor(threads[prev].xsave_area, threads[next].xsave_area,
                                xsave_mem, xregs, xsave_mask)
       IN  /\ xsave_mem' = x.mem
           /\ xregs' = x.live
    /\ head_rsp3' = RSP3_POISON
    /\ fsbase_reg' = FsbaseOfNext(prev, next)
    /\ do_switch_thread(prev, next)
    /\ swlog' = (IF swlog = <<>> THEN <<>> ELSE <<swlog[Len(swlog)]>>)
                    \o <<SwitchSnapshot(prev, next)>>
    /\ UNCHANGED <<page_image, lock, next_page, kstack, xcr0, panicked, sig, nsig, nxw>>

\* ------------------------------------------- the entry points of the frames
\* kthread_entry: pops the entry point and jumps to it.
kthread_entry_run ==
    /\ ~panicked
    /\ pc = "kthread_entry"
    /\ cpu' = [cpu EXCEPT !.rip = Word(mem, cpu.rsp), !.rsp = cpu.rsp + 8]
    /\ mem' = Erase(mem, cpu.rsp, 1)
    /\ pc' = "kernel"
    /\ nops' = nops
    /\ last' = Op("kthread_entry", -1, -1, <<cpu.rsp>>)
    /\ UNCHANGED <<page_image, threads, run, lock, xsave_mem, next_page, kstack,
                   xregs, xcr0, head_rsp0, head_rsp3, tss_rsp0, fsbase_reg,
                   panicked, sig, nsig, nxw, swlog>>

\* IRET from address a: pops RIP, CS, RFLAGS, RSP, SS.
Iret(c, a) ==
    LET w == Words(mem, a, 5)
    IN  [c EXCEPT !.rip = w[1], !.cs = w[2], !.rflags = w[3], !.rsp = w[4],
                  !.ss = w[5]]

\* userland_entry: returns to user mode through IRET.
userland_entry_run ==
    /\ ~panicked
    /\ pc = "userland_entry"
    /\ cpu' = Iret(cpu, cpu.rsp)
    /\ mem' = Erase(mem, cpu.rsp, 5)
    /\ pc' = "user"
    /\ nops' = nops
    /\ last' = Op("userland_entry", -1, -1, <<cpu.rsp>>)
    /\ UNCHANGED <<page_image, threads, run, lock, xsave_mem, next_page, kstack,
                   xregs, xcr0, head_rsp0, head_rsp3, tss_rsp0, fsbase_reg,
                   panicked, sig, nsig, nxw, swlog>>

\* forked_child_entry: pops rdx, rdi, rsi, r8, r9, r10, rcx, r11, then IRET.
forked_child_entry_run ==
    /\ ~panicked
    /\ pc = "forked_child_entry"
    /\ LET w == Words(mem, cpu.rsp, 8)
       IN  cpu' = Iret([cpu EXCEPT !.rdx = w[1], !.rdi = w[2], !.rsi = w[3],
                                   !.r8 = w[4], !.r9 = w[5], !.r10 = w[6],
                                   !.rcx = w[7], !.r11 = w[8]],
                       cpu.rsp + 64)
    /\ mem' = Erase(mem, cpu.rsp, 13)
    /\ pc' = "user"
    /\ nops' = nops
    /\ last' = Op("forked_child_entry", -1, -1, <<cpu.rsp>>)
    /\ UNCHANGED <<page_image, threads, run, lock, xsave_mem, next_page, kstack,
                   xregs, xcr0, head_rsp0, head_rsp3, tss_rsp0, fsbase_reg,
                   panicked, sig, nsig, nxw, swlog>>

\* signal_handler_entry and direct_signal_handler_entry: pop rdx, rsi, rdi,
\* the flags, the instruction pointer and the stack pointer of the handler
\* and return to user mode.
signal_handler_entry_run ==
    /\ ~panicked
    /\ pc \in {"signal_handler_entry", "direct_signal_handler_entry"}
    /\ LET w == Words(mem, cpu.rsp, 6)
       IN  cpu' = [cpu EXCEPT !.rdx = w[1], !.rsi = w[2], !.rdi = w[3],
                              !.rflags = w[4], !.rip = w[5], !.rsp = w[6],
                              !.cs = BitOr(USER_CS64, USER_RPL),
                              !.ss = BitOr(USER_DS, USER_RPL)]
    /\ mem' = Erase(mem, cpu.rsp, 6)
    /\ pc' = "user"
    /\ nops' = nops
    /\ last' = Op(pc, -1, -1, <<cpu.rsp>>)
    /\ UNCHANGED <<page_image, threads, run, lock, xsave_mem, next_page, kstack,
                   xregs, xcr0, head_rsp0, head_rsp3, tss_rsp0, fsbase_reg,
                   panicked, sig, nsig, nxw, swlog>>

\* ------------------------------------------------------------ the user side
\* A system call or an interrupt taken in user mode: the core enters the
\* kernel at the top of the stack the per-core state names, and what the
\* stack held is dead.  The registers then hold the kernel's own values,
\* which the model leaves at 0.  Before the first call of switch_thread the
\* per-core state names no stack: a trap taken then is not modelled.
TrapStackTop(kind) == IF kind = "syscall" THEN head_rsp0 ELSE tss_rsp0

trap_entry(kind) ==
    /\ ~panicked
    /\ pc = "user"
    /\ TrapStackTop(kind) # 0
    /\ cpu' = [CpuZero EXCEPT !.rsp = TrapStackTop(kind), !.rflags = RFLAGS_IF_OFF]
    /\ mem' = EraseRange(mem, TrapStackTop(kind) - KERNEL_STACK_SIZE, TrapStackTop(kind))
    /\ head_rsp3' = IF kind = "syscall" THEN cpu.rsp ELSE head_rsp3
    /\ pc' = "kernel"
    /\ nops' = nops
    /\ last' = Op(kind, -1, -1, <<cpu.rsp>>)
    /\ UNCHANGED <<page_image, threads, run, lock, xsave_mem, next_page, kstack,
                   xregs, xcr0, head_rsp0, tss_rsp0, fsbase_reg, panicked,
                   sig, nsig, nxw, swlog>>

\* User code computes with the extended registers XCR0 enables.
write_xregs(c, v) ==
    /\ ~panicked
    /\ pc = "user"
    /\ c \in xcr0
    /\ v # xregs[c]
    /\ xregs' = [xregs EXCEPT ![c] = v]
    /\ nxw' = nxw + 1
    /\ nops' = nops
    /\ last' = Op("write_xregs", -1, -1, <<v>>)
    /\ swlog' = <<>>
    /\ UNCHANGED <<threads, run, lock, mem, xsave_mem, next_page, kstack, page_image,
                   xcr0, head_rsp0, head_rsp3, tss_rsp0, fsbase_reg, cpu, pc,
                   panicked, sig, nsig>>

\* The values the architecture code gives the FS base of a thread.
TlsBases == {28672}

\* The field fsbase is pub(super): the architecture code outside this file
\* sets it for the running thread, once here, and loads the register with the
\* same value.
set_fsbase(this, value) ==
    /\ InKernel
    /\ IsRunning(this)
    /\ ~lock[this]
    /\ threads[this].fsbase = 0
    /\ threads' = [threads EXCEPT ![this].fsbase = value]
    /\ fsbase_reg' = value
    /\ nops' = nops
    /\ last' = Op("set_fsbase", this, -1, <<value>>)
    /\ swlog' = <<>>
    /\ UNCHANGED <<run, lock, mem, xsave_mem, next_page, kstack, page_image, xregs,
                   xcr0, head_rsp0, head_rsp3, tss_rsp0, cpu, pc, panicked, sig,
                   nsig, nxw>>

\* ------------------------------------------------------ the specifications
\* The calls of the constructors and of fork, while fewer than max_threads
\* threads exist and fewer than max_ops calls were made.
Constructing(max_threads, max_ops, ips, starts, frames) ==
    \/ NewId < max_threads /\ nops < max_ops /\ alloc_kernel_stack
    \/ \E ip \in ips : IsSome(kstack) /\ new_kthread(ip, Unwrap(kstack))
    \/ \E u \in starts : IsSome(kstack) /\ new_user_thread(u[1], u[2], Unwrap(kstack))
    \/ \E self \in Ids, frame \in frames :
          NewId < max_threads /\ nops < max_ops /\ fork(self, frame)

\* The calls of set_signal_entry and the steps of each.
Signalling(max_signals, max_ops, signals) ==
    \/ \E this \in Ids, a \in signals, is_current_process \in BOOLEAN :
          /\ nsig < max_signals /\ nops < max_ops
          /\ set_signal_entry(this, a[1], a[2], a[3], a[4], a[5], is_current_process)
    \/ set_signal_entry_drop
    \/ set_signal_entry_jmp
    \/ set_signal_entry_switch_frame
    \/ set_signal_entry_publish

\* The calls of switch_thread and where they land.
Switching(max_ops) ==
    \/ \E prev \in Ids, next \in Ids : nops < max_ops /\ switch_thread(prev, next)
    \/ kthread_entry_run
    \/ userland_entry_run
    \/ forked_child_entry_run

UserSide ==
    \/ \E kind \in {"syscall", "interrupt"} : trap_entry(kind)
    \/ \E c \in XComponents, v \in 0..1 : nxw < MaxXWrites /\ write_xregs(c, v)

Next ==
    \/ new_idle_thread
    \/ Constructing(MaxThreads, MaxOps, OneIp, OneStart, OneFrame)
    \/ Signalling(MaxSignals, MaxOps, {NthSignal(nsig)})
    \/ signal_handler_entry_run
    \/ Switching(MaxOps)
    \/ UserSide

Spec == Init /\ [][Next]_vars

NextSwitch ==
    \/ new_idle_thread
    \/ Constructing(SwitchThreads, SwitchOps, OneIp, OneStart, OneFrame)
    \/ Switching(SwitchOps)
    \/ UserSide

SpecSwitch == Init /\ [][NextSwitch]_vars

NextLayout ==
    \/ new_idle_thread
    \/ Constructing(LayoutThreads, LayoutThreads, KthreadIps, UserStarts, SyscallFrames)
    \/ Signalling(LayoutSignals, LayoutThreads + LayoutSignals, SignalArgs)

SpecLayout == Init /\ [][NextLayout]_vars

NextTls ==
    \/ new_idle_thread
    \/ Constructing(SwitchThreads, SwitchOps, OneIp, OneStart, OneFrame)
    \/ Switching(SwitchOps)
    \/ \E kind \in {"syscall", "interrupt"} : trap_entry(kind)
    \/ \E this \in Ids, value \in TlsBases : set_fsbase(this, value)

SpecTls == Init /\ [][NextTls]_vars

NextDeliver ==
    \/ new_idle_thread
    \/ Constructing(LayoutThreads, LayoutThreads, OneIp, OneStart, OneFrame)
    \/ Signalling(ManySignals, LayoutThreads + ManySignals, {NthSignal(0)})

SpecDeliver == Init /\ [][NextDeliver]_vars

\* ------------------------------------------------------------ frame layouts
\* The last operation made a thread: last.a is its id.
Made(name) == last.op = name /\ last.a \in Ids

\* C1 (as the code has it): for a thread built by new_kthread with entry E and
\* stack top S, the nine words popped upward from its rsp are the flags 0x02,
\* six zeros, kthread_entry and then E; rsp is S - 72 and E lies at S - 8.
C1_KthreadPopOrder ==
    Made("new_kthread") =>
        LET E == last.args[1]
            S == last.args[2]
            rsp == threads[last.a].rsp
        IN  /\ rsp = S - 8 * 9
            /\ Words(mem, rsp, 9) =
                   <<RFLAGS_IF_OFF, 0, 0, 0, 0, 0, 0, kthread_entry, E>>
            /\ Word(mem, S - 8) = E

\* C1 as stated: the words popped are the flags, kthread_entry, six zeros and
\* then E.
C1_KthreadPopOrderAsStated ==
    Made("new_kthread") =>
        Words(mem, threads[last.a].rsp, 9) =
            <<RFLAGS_IF_OFF, kthread_entry, 0, 0, 0, 0, 0, 0, last.args[1]>>

\* new_kthread has built a thread whose entry is neither zero nor
\* kthread_entry, so that the order of the words shows.
C1_KthreadBuilt ==
    /\ Made("new_kthread")
    /\ last.args[1] = ALL_ONES
    /\ Word(mem, last.args[2] - 8) = ALL_ONES

\* C2: for every captured frame, the child fork returns has, upward from its
\* rsp: the footer of do_switch_thread (flags 0x02, r15, r14, r13, r12, rbx,
\* rbp of the frame, forked_child_entry), the layer of forked_child_entry
\* (rdx, rdi, rsi, r8, r9, r10 of the frame, then the rcx slot = rip and the
\* r11 slot = rflags) and the IRET layer (rip, user CS, rflags, rsp, user SS).
C2_ForkChildLayers ==
    Made("fork") =>
        LET f == FrameOf(last.args)
            rsp == threads[last.a].rsp
        IN  /\ Words(mem, rsp, 8) =
                   <<RFLAGS_IF_OFF, f.r15, f.r14, f.r13, f.r12, f.rbx, f.rbp,
                     forked_child_entry>>
            /\ Words(mem, rsp + 64, 8) =
                   <<f.rdx, f.rdi, f.rsi, f.r8, f.r9, f.r10, f.rip, f.rflags>>
            /\ Words(mem, rsp + 128, 5) =
                   <<f.rip, BitOr(USER_CS64, USER_RPL), f.rflags, f.rsp,
                     BitOr(USER_DS, USER_RPL)>>

\* fork has returned a child for a frame whose rip and rsp differ.
C2_ForkedFromMixedFrame ==
    /\ Made("fork")
    /\ FrameOf(last.args).rip = ALL_ONES
    /\ FrameOf(last.args).rsp = 0
    /\ run[last.a] = "Fresh"

\* C3: for a thread built by new_user_thread(ip, sp, kernel_sp), the IRET
\* layer holds ip as RIP, sp as RSP, the flags 0x202 and the user selectors
\* USER_CS64|USER_RPL and USER_DS|USER_RPL; the footer at rsp holds the flags
\* 0x02 and userland_entry as the saved instruction pointer.
C3_UserLayers ==
    Made("new_user_thread") =>
        LET ip == last.args[1]
            sp == last.args[2]
            kernel_sp == last.args[3]
            rsp == threads[last.a].rsp
        IN  /\ rsp = kernel_sp - 8 * 13
            /\ Words(mem, rsp, 8) =
                   <<RFLAGS_IF_OFF, 0, 0, 0, 0, 0, 0, userland_entry>>
            /\ Words(mem, rsp + 64, 5) =
                   <<ip, BitOr(USER_CS64, USER_RPL), RFLAGS_IF_ON, sp,
                     BitOr(USER_DS, USER_RPL)>>

\* new_user_thread has built a thread whose entry and stack top differ.
C3_UserBuilt ==
    /\ Made("new_user_thread")
    /\ last.args[1] = 8384512
    /\ last.args[2] = 4198400

\* ----------------------------------------------------------------- fork
\* C4 as stated: when a page request of fork fails, fork returns an error to
\* its caller; the kernel does not stop and no thread is added.
C4_ForkReturnsAllocationFailure ==
    (last.op = "fork" /\ last.a = -1) => ~panicked

\* --------------------------------------------------------- switch round trip
\* switch_thread(A, B) was called and then switch_thread(B, A), with no other
\* call of this module and no write of the extended registers between them;
\* A and B each have an XSAVE area.
RoundTrip ==
    /\ Len(swlog) = 2
    /\ last.op = "switch_thread"
    /\ swlog[2].prev = swlog[1].next
    /\ swlog[2].next = swlog[1].prev
    /\ IsSome(swlog[1].prev_area)
    /\ IsSome(swlog[1].next_area)

\* The per-core state names the stacks of thread t.
PointsAtStacksOf(t) ==
    /\ head_rsp0 = threads[t].syscall_stack + KERNEL_STACK_SIZE
    /\ tss_rsp0 = threads[t].interrupt_stack + KERNEL_STACK_SIZE

\* What the area of the thread switched from holds after a call made with
\* the registers live and the area holding before: the registers in the
\* components XCR0 enables, and in the others what it held.
SavedImage(before, live) ==
    [c \in XComponents |-> IF c \in xcr0 THEN live[c] ELSE before[c]]

\* C5 (as the code has it): after switch_thread(A, B) and then
\* switch_thread(B, A), the XSAVE area of A holds, in the components XCR0
\* enables, the extended registers that were live at the first call, and in
\* the others what it held before; the per-core rsp0 and TSS.rsp0 point at
\* the stacks of A.
C5_RoundTripSavesLive ==
    RoundTrip =>
        LET A == swlog[1].prev
        IN  /\ xsave_mem[Unwrap(threads[A].xsave_area)] =
                   SavedImage(Unwrap(swlog[1].prev_area), swlog[1].xregs)
            /\ PointsAtStacksOf(A)

\* C5 as stated: after the pair, the XSAVE area of A holds what it held before
\* the pair, and the per-core state points at the stacks of A.
C5_RoundTripIdentity ==
    RoundTrip =>
        LET A == swlog[1].prev
        IN  /\ xsave_mem[Unwrap(threads[A].xsave_area)] = Unwrap(swlog[1].prev_area)
            /\ PointsAtStacksOf(A)

\* The pair was made when the live registers differed from the area of A.
C5_RoundTripAfterWrite ==
    /\ RoundTrip
    /\ SavedImage(Unwrap(swlog[1].prev_area), swlog[1].xregs)
           # Unwrap(swlog[1].prev_area)

\* ------------------------------------------------------------ signal entry
\* C6: with is_current_process = TRUE the lock of the thread is released
\* before the jump to direct_signal_handler_entry: it is free when the jump is
\* about to be made, and no lock is held once the core is there.
C6_LockFreeAtTransfer ==
    /\ (sig.active /\ sig.stage = "jmp") => ~lock[sig.this]
    /\ pc = "direct_signal_handler_entry" => \A i \in Ids : ~lock[i]

\* The jump of a delivery to the current process has been made.
C6_Transferred ==
    /\ last.op = "jmp"
    /\ pc = "direct_signal_handler_entry"
    /\ run[last.a] = "Running"

\* The frame at sp is one set_signal_entry pushed for another process: the
\* saved instruction pointer of its footer is signal_handler_entry.
IsSignalFrame(m, sp) == Word(m, sp + 8 * 7) = signal_handler_entry

\* The size of a signal frame: the six words of signal_handler_entry and the
\* eight of do_switch_thread.
SignalFrameSize == 8 * (6 + 8)

\* The number of signal frames stacked from sp upward.
RECURSIVE SignalDepth(_, _)
SignalDepth(m, sp) ==
    IF IsSignalFrame(m, sp) THEN 1 + SignalDepth(m, sp + SignalFrameSize) ELSE 0

\* The stack pointer after k signal frames are popped from sp.
PopSignalLayers(sp, k) == sp + k * SignalFrameSize

\* C7: a delivery to a thread that is not the current one, whose rsp is R,
\* leaves the memory at and above R as it was, at each of its steps; it leaves
\* rsp at R until it assigns R - 112; the frame it leaves is one signal frame
\* more on the frames that were there, so that popping as many frames as were
\* delivered gives the stack pointer from before the first of them.
C7_Step ==
    ((sig.active /\ ~sig.is_current_process)
        \/ (sig'.active /\ ~sig'.is_current_process)) =>
        LET this == IF sig.active THEN sig.this ELSE sig'.this
            R == threads[this].rsp
            k == SignalDepth(mem, R)
        IN  /\ \A a \in DOMAIN mem :
                   a >= R => (a \in DOMAIN mem' /\ mem'[a] = mem[a])
            /\ IF sig.active /\ ~sig'.active
               THEN /\ threads'[this].rsp = R - SignalFrameSize
                    /\ SignalFrameSize = 112
                    /\ SignalDepth(mem', threads'[this].rsp) = k + 1
                    /\ PopSignalLayers(threads'[this].rsp, 1) = R
                    /\ PopSignalLayers(threads'[this].rsp, k + 1)
                           = PopSignalLayers(R, k)
               ELSE threads'[this].rsp = R

C7_SignalFramePrepended == [][C7_Step]_vars

\* Two deliveries in a row to a thread that is not running have been made.
C7_TwoDeliveries ==
    /\ last.op = "publish"
    /\ run[last.a] # "Running"
    /\ SignalDepth(mem, threads[last.a].rsp) = 2

\* ----------------------------------------------------------------- run states
\* C8: a call of switch_thread(prev, next) takes prev from Running to
\* Suspended and next from Suspended or Fresh to Running and changes the run
\* state of no other thread; no other step changes the run state of a thread
\* (a thread is made Fresh, the idle thread Running); after every step exactly
\* one thread is Running.
C8_Step ==
    LET changed == {i \in DOMAIN run : run'[i] # run[i]}
        made == (DOMAIN run') \ (DOMAIN run)
    IN  /\ IF last'.op = "switch_thread"
           THEN /\ changed = {last'.a, last'.b}
                /\ last'.a # last'.b
                /\ run[last'.a] = "Running" /\ run'[last'.a] = "Suspended"
                /\ run[last'.b] \in {"Suspended", "Fresh"}
                /\ run'[last'.b] = "Running"
                /\ made = {}
           ELSE /\ changed = {}
                /\ \A i \in made :
                       run'[i] = IF DOMAIN run = {} THEN "Running" ELSE "Fresh"
        /\ DOMAIN run' # {} =>
               Cardinality({i \in DOMAIN run' : run'[i] = "Running"}) = 1

C8_OneRunning == [][C8_Step]_vars

\* A thread was built, a signal delivered and a switch made.
C8_SwitchedAfterSignal ==
    /\ last.op = "switch_thread"
    /\ nsig >= 1
    /\ Cardinality(Ids) = 2
    /\ run[last.a] = "Suspended"
    /\ run[last.b] = "Running"

\* ------------------------------------------------------------- saved frames
\* n words from a upward are written.
Written(m, a, n) == \A i \in 0..(n - 1) : (a + 8 * i) \in DOMAIN m

\* The words above the footer that belong to the frame whose footer has the
\* saved instruction pointer rip.
LayerWords(rip) ==
    CASE rip = kthread_entry -> 1
      [] rip = userland_entry -> 5
      [] rip = forked_child_entry -> 8 + 5
      [] rip = signal_handler_entry -> 6
      [] OTHER -> 0

\* At sp lies a footer of do_switch_thread, written in full, whose saved
\* instruction pointer is one of kinds, below the words of its layer, written
\* in full; under a signal layer lies such a frame again.
RECURSIVE WellFormedFrame(_, _, _)
WellFormedFrame(m, sp, kinds) ==
    LET rip == Word(m, sp + 8 * 7)
    IN  /\ Written(m, sp, 8)
        /\ Word(m, sp) = RFLAGS_IF_OFF
        /\ rip \in kinds
        /\ Written(m, sp + 8 * 8, LayerWords(rip))
        /\ rip = signal_handler_entry =>
               WellFormedFrame(m, sp + SignalFrameSize, kinds)

StartKinds ==
    {kthread_entry, userland_entry, forked_child_entry, signal_handler_entry}

\* C9 (as the code has it): whenever a thread is not running, its rsp points
\* at a frame written in full: a footer of do_switch_thread over the layer of
\* kthread_entry, userland_entry, forked_child_entry or signal_handler_entry,
\* or the footer do_switch_thread pushed when the thread was switched from,
\* whose saved instruction pointer is the return into switch_thread.  A
\* delivery to another process assigns rsp after the last word is written.
C9_SavedFramesWellFormed ==
    \A i \in Ids :
        run[i] # "Running" =>
            WellFormedFrame(mem, threads[i].rsp, StartKinds \cup {switch_thread_ret})

\* C9 as stated: the frame is always one of the four start frames.
C9_SavedFramesAreStartFrames ==
    \A i \in Ids :
        run[i] # "Running" => WellFormedFrame(mem, threads[i].rsp, StartKinds)

\* A delivery to another process has written every word of the new frame and
\* has not yet assigned rsp.
C9_FrameWrittenNotPublished ==
    /\ sig.active
    /\ ~sig.is_current_process
    /\ sig.stage = "publish"
    /\ threads[sig.this].rsp = sig.rsp + SignalFrameSize
    /\ WellFormedFrame(mem, sig.rsp, StartKinds)

\* ---------------------------------------------------------- the idle thread
\* C10: the thread new_idle_thread makes has rsp 0, and no call of
\* switch_thread loads a stack pointer of 0: the idle thread is next only
\* after it was prev.
C10_NeverSwitchToZero ==
    /\ (last.op = "new_idle_thread" /\ last.a \in Ids) => threads[last.a].rsp = 0
    /\ last.op = "switch_thread" => last.args[2] # 0

\* switch_thread has switched to the idle thread.
C10_SwitchedToIdle ==
    /\ last.op = "switch_thread"
    /\ last.b = 0
    /\ threads[0].interrupt_stack = as_vaddr(PAGE_SIZE)
    /\ last.args[2] # 0

\* ------------------------------------------------- switches without an area
\* The step is a call of switch_thread between two threads that have no
\* XSAVE area.
SwitchWithoutAreas ==
    /\ last'.op = "switch_thread"
    /\ threads[last'.a].xsave_area = None
    /\ threads[last'.b].xsave_area = None

\* C11: a call of switch_thread between two threads that have no XSAVE area
\* saves nothing and restores nothing: every XSAVE area and the live extended
\* registers are as they were, and the call lands where the frame of next
\* says, without a fault.
C11_Step ==
    SwitchWithoutAreas =>
        /\ xsave_mem' = xsave_mem
        /\ xregs' = xregs
        /\ ~panicked'
        /\ pc' # "fault"

C11_NoSaveNoRestore == [][C11_Step]_vars

\* Such a call has been made with extended registers that are not in their
\* initial state, between the idle thread and a thread new_kthread built.
C11_SwitchedWithoutAreas ==
    /\ last.op = "switch_thread"
    /\ threads[last.a].xsave_area = None
    /\ threads[last.b].xsave_area = None
    /\ xregs # XZero
    /\ \E i \in {last.a, last.b} : threads[i].rsp # 0 /\ i # 0

\* ------------------------------------------------------ the per-core stacks
\* switch_thread has been called at least once.
Switched == head_rsp0 # 0 \/ tss_rsp0 # 0

\* C12: after every call of switch_thread(prev, next), head.rsp0 is
\* next.syscall_stack + KERNEL_STACK_SIZE and TSS.rsp0 is
\* next.interrupt_stack + KERNEL_STACK_SIZE; once a call was made, the two
\* point at the stacks of the thread that is running and at those of no
\* other thread.
C12_PerCoreStacksOfRunning ==
    /\ last.op = "switch_thread" =>
           /\ head_rsp0 = threads[last.b].syscall_stack + KERNEL_STACK_SIZE
           /\ tss_rsp0 = threads[last.b].interrupt_stack + KERNEL_STACK_SIZE
    /\ Switched =>
           \A i \in Ids :
               (run[i] = "Running") <=>
                   (/\ head_rsp0 = threads[i].syscall_stack + KERNEL_STACK_SIZE
                    /\ tss_rsp0 = threads[i].interrupt_stack + KERNEL_STACK_SIZE)

\* A switch between two threads other than the idle thread was made, after
\* earlier switches.
C12_SwitchedBetweenThreads ==
    /\ last.op = "switch_thread"
    /\ last.a # 0 /\ last.b # 0
    /\ run[last.a] = "Suspended"
    /\ run[0] = "Suspended"
    /\ head_rsp0 = threads[last.b].syscall_stack + KERNEL_STACK_SIZE

\* ---------------------------------------------------- save before restore
\* The image a thread with area a would find in the components XCR0 enables.
Enabled(image) == [c \in xcr0 |-> image[c]]

\* C13: in a call of switch_thread(prev, next) the save into the area of prev
\* comes before the restore from the area of next: after the call the area of
\* prev holds the registers that were live at the call, the live registers
\* hold what the area of next held, and the area of no other thread has
\* changed.  Components XCR0 does not enable are neither saved nor restored.
C13_Step ==
    last'.op = "switch_thread" =>
        LET prev_area == threads[last'.a].xsave_area
            next_area == threads[last'.b].xsave_area
        IN  /\ IsSome(prev_area) =>
                   xsave_mem'[Unwrap(prev_area)] =
                       SavedImage(xsave_mem[Unwrap(prev_area)], xregs)
            /\ IsSome(next_area) =>
                   /\ Enabled(xregs') = Enabled(xsave_mem[Unwrap(next_area)])
                   /\ xsave_mem'[Unwrap(next_area)] = xsave_mem[Unwrap(next_area)]
            /\ \A c \in XComponents \ xcr0 : xregs'[c] = xregs[c]
            /\ \A a \in DOMAIN xsave_mem :
                   (prev_area # Some(a)) => xsave_mem'[a] = xsave_mem[a]
            /\ DOMAIN xsave_mem' = DOMAIN xsave_mem

C13_SaveBeforeRestore == [][C13_Step]_vars

\* A switch was made between two threads with areas whose images differ: the
\* area of prev holds what was live, the registers what the area of next
\* holds.
C13_SwitchedImagesDiffer ==
    /\ last.op = "switch_thread"
    /\ IsSome(threads[last.a].xsave_area)
    /\ IsSome(threads[last.b].xsave_area)
    /\ Enabled(xsave_mem[Unwrap(threads[last.a].xsave_area)])
           # Enabled(xsave_mem[Unwrap(threads[last.b].xsave_area)])
    /\ Enabled(xregs) = Enabled(xsave_mem[Unwrap(threads[last.b].xsave_area)])

\* ------------------------------------------------- signals at the switch-in
\* The user instruction pointer the signal frame at sp carries.
SignalRip(m, sp) == Word(m, sp + 8 * 8 + 8 * 4)

\* The signal frames stacked from sp upward each carry a later delivery than
\* the one above them.
RECURSIVE LastDeliveredFirst(_, _)
LastDeliveredFirst(m, sp) ==
    (IsSignalFrame(m, sp) /\ IsSignalFrame(m, sp + SignalFrameSize)) =>
        /\ SignalRip(m, sp) > SignalRip(m, sp + SignalFrameSize)
        /\ LastDeliveredFirst(m, sp + SignalFrameSize)

\* The addresses of the signal frames stacked from sp upward.
RECURSIVE ChainOf(_, _)
ChainOf(m, sp) ==
    IF IsSignalFrame(m, sp) THEN {sp} \cup ChainOf(m, sp + SignalFrameSize) ELSE {}

\* The signal frames in memory that the rsp of no thread leads to.
Abandoned ==
    {a - 8 * 7 : a \in {x \in DOMAIN mem : mem[x] = signal_handler_entry}}
        \ UNION {ChainOf(mem, threads[i].rsp) : i \in {j \in Ids : run[j] # "Running"}}

\* C14 (as the model has it): a delivery to a thread that is not running moves
\* neither the registers of the core nor a run state, and leaves its frame at
\* the rsp of the thread, on top of the earlier ones; the signal frames of a
\* thread lie last delivered first from its rsp upward; the call of
\* switch_thread into it pops the footer of the last delivered and lands on
\* signal_handler_entry with the layer of that delivery at the stack pointer;
\* signal_handler_entry pops that layer alone and returns to user mode at its
\* rip and rsp, and the frames above it stay in memory as they were.
C14_Step ==
    /\ \A i \in Ids : run[i] # "Running" => LastDeliveredFirst(mem, threads[i].rsp)
    /\ ((sig.active /\ ~sig.is_current_process)
           \/ (sig'.active /\ ~sig'.is_current_process)) =>
           /\ cpu' = cpu
           /\ run' = run
           /\ pc' \in {"set_signal_entry", "kernel"}
           /\ (sig.active /\ ~sig'.active) =>
                  LET new == threads'[sig.this].rsp
                  IN  /\ IsSignalFrame(mem', new)
                      /\ \A a \in ChainOf(mem', new + SignalFrameSize) :
                             SignalRip(mem', new) > SignalRip(mem', a)
    /\ (last'.op = "switch_thread" /\ IsSignalFrame(mem, threads[last'.b].rsp)) =>
           LET R == threads[last'.b].rsp
           IN  /\ pc' = "signal_handler_entry"
               /\ cpu'.rsp = R + 8 * 8
               /\ Words(mem', cpu'.rsp, 6) = Words(mem, R + 8 * 8, 6)
               /\ \A a \in ChainOf(mem, R + SignalFrameSize) :
                      SignalRip(mem, R) > SignalRip(mem, a)
    /\ pc = "signal_handler_entry" =>
           /\ pc' = "user"
           /\ cpu'.rip = Word(mem, cpu.rsp + 8 * 4)
           /\ cpu'.rsp = Word(mem, cpu.rsp + 8 * 5)
           /\ \A a \in DOMAIN mem :
                  a >= cpu.rsp + 8 * 6 => (a \in DOMAIN mem' /\ mem'[a] = mem[a])

C14_LastDeliveredConsumed == [][C14_Step]_vars

\* C14 as stated: the signals delivered while the thread was suspended are
\* all consumed, the last delivered first: once the thread runs again and has
\* re-entered the kernel from the handler, no signal frame is left that
\* nothing leads to.
C14_AllConsumedInOrder ==
    (pc = "kernel" /\ last.op \in {"syscall", "interrupt"}) => Abandoned = {}

\* A thread with two signal frames was switched to, and signal_handler_entry
\* has returned to the handler of the second delivery with the frame of the
\* first still above the layer it popped.
C14_SecondConsumedFirstLeft ==
    /\ last.op = "signal_handler_entry"
    /\ pc = "user"
    /\ cpu.rip = NthSignal(1)[1]
    /\ IsSignalFrame(mem, last.args[1] + 8 * 6)
    /\ SignalRip(mem, last.args[1] + 8 * 6) = NthSignal(0)[1]

\* ---------------------------------------------------------- the signal layer
\* C15: on both paths, the six words set_signal_entry pushes first are, read
\* upward from where it stops: arg3 (the RDX slot), arg2 (RSI), arg1 (RDI),
\* the flags 0x202, user_rip and user_rsp.  On the path of the current process
\* they lie at the end of tmp, on the other path right below this.rsp.
C15_SignalLayer ==
    last.op = "set_signal_entry" =>
        LET user_rip == last.args[1]
            user_rsp == last.args[2]
            arg1 == last.args[3]
            arg2 == last.args[4]
            arg3 == last.args[5]
        IN  /\ sig.active
            /\ sig.is_current_process = (run[last.a] = "Running")
            /\ sig.start = IF sig.is_current_process THEN cpu.rsp
                           ELSE threads[last.a].rsp
            /\ sig.rsp = sig.start - 8 * 6
            /\ Words(mem, sig.rsp, 6) =
                   <<arg3, arg2, arg1, RFLAGS_IF_ON, user_rip, user_rsp>>

\* The layer was built for the current process from values that differ from
\* slot to slot.
C15_LayerBuiltForSelf ==
    /\ last.op = "set_signal_entry"
    /\ sig.is_current_process
    /\ last.args = <<ALL_ONES, 0, ALL_ONES, 0, ALL_ONES>>
    /\ Word(mem, cpu.rsp - 8) = 0

\* ------------------------------------------------------ what a call changes
\* C16: no step changes the fsbase, the xsave_area, the interrupt_stack or the
\* syscall_stack of a thread that exists.  The rsp of a thread changes only
\* in a call of switch_thread, where it is that of prev, and in the
\* assignment that ends a delivery to a thread that is not the current one,
\* where it is that of the target; switch_thread changes no field of next, a
\* delivery to the current process no field of any thread, fork no field of
\* the parent.
C16_Step ==
    \A i \in DOMAIN threads :
        /\ i \in DOMAIN threads'
        /\ threads'[i].fsbase = threads[i].fsbase
        /\ threads'[i].xsave_area = threads[i].xsave_area
        /\ threads'[i].interrupt_stack = threads[i].interrupt_stack
        /\ threads'[i].syscall_stack = threads[i].syscall_stack
        /\ threads'[i].rsp # threads[i].rsp =>
               \/ last'.op = "switch_thread" /\ i = last'.a
               \/ /\ last'.op = "publish"
                  /\ sig.active /\ ~sig.is_current_process /\ i = sig.this

C16_FieldsKept == [][C16_Step]_vars

\* A thread with an XSAVE area was made, a signal delivered and the idle
\* thread switched from: its rsp has changed, the other fields of both threads
\* are those they were built with.
C16_AfterForkSignalSwitch ==
    /\ last.op = "switch_thread"
    /\ nsig >= 1
    /\ Cardinality(Ids) = 2
    /\ IsSome(threads[1].xsave_area)
    /\ threads[0].rsp # 0
    /\ threads[0].xsave_area = None

\* ------------------------------------------------------ flags and selectors
\* The interrupt flag (bit 9) of a flags value.
HasIF(flags) == (flags \div 512) % 2 = 1

UserCS == BitOr(USER_CS64, USER_RPL)
UserSS == BitOr(USER_DS, USER_RPL)

\* The layers of the frame at sp carry the flags their consumer expects: the
\* footer of do_switch_thread 0x02; the IRET layer under userland_entry 0x202
\* and the user selectors; the IRET layer under forked_child_entry the flags
\* of the captured frame (those of its r11 slot) and the user selectors; the
\* layer of signal_handler_entry 0x202.  with_selectors says whether the layer
\* of signal_handler_entry is taken to hold the user selectors too.
RECURSIVE LayersMatchConsumers(_, _, _)
LayersMatchConsumers(m, sp, with_selectors) ==
    LET rip == Word(m, sp + 8 * 7)
        top == sp + 8 * 8
    IN  /\ Word(m, sp) = RFLAGS_IF_OFF
        /\ rip = userland_entry =>
               /\ Word(m, top + 8) = UserCS
               /\ Word(m, top + 16) = RFLAGS_IF_ON
               /\ Word(m, top + 32) = UserSS
        /\ rip = forked_child_entry =>
               /\ Word(m, top + 64 + 8) = UserCS
               /\ Word(m, top + 64 + 16) = Word(m, top + 56)
               /\ Word(m, top + 64 + 32) = UserSS
        /\ rip = signal_handler_entry =>
               /\ Word(m, top + 24) = RFLAGS_IF_ON
               /\ with_selectors =>
                      /\ \E k \in 0..5 : Word(m, top + 8 * k) = UserCS
                      /\ \E k \in 0..5 : Word(m, top + 8 * k) = UserSS
               /\ LayersMatchConsumers(m, sp + SignalFrameSize, with_selectors)

\* The core returns to user mode from one of the entry routines.
ReturnsToUser ==
    /\ pc \in {"userland_entry", "forked_child_entry", "signal_handler_entry",
               "direct_signal_handler_entry"}
    /\ pc' = "user"

\* C17 (as the code has it): every footer do_switch_thread consumes has the
\* flags 0x02, and the flags it pops at a switch are 0x02; the IRET layers
\* new_user_thread and fork build hold the user selectors, with the flags
\* 0x202 and the flags of the captured frame; the layer set_signal_entry
\* builds holds the flags 0x202 and no selector.  Every return to user mode
\* loads flags with interrupts enabled (the frames fork is given here have
\* them enabled, as frames captured in user mode do).
C17_Step ==
    /\ \A i \in Ids :
           run[i] # "Running" => LayersMatchConsumers(mem, threads[i].rsp, FALSE)
    /\ last'.op = "switch_thread" => cpu'.rflags = RFLAGS_IF_OFF
    /\ ReturnsToUser =>
           /\ HasIF(cpu'.rflags)
           /\ pc \in {"userland_entry", "forked_child_entry"} =>
                  cpu'.cs = UserCS /\ cpu'.ss = UserSS
           /\ pc \in {"signal_handler_entry", "direct_signal_handler_entry"} =>
                  /\ cpu'.rflags = RFLAGS_IF_ON
                  /\ UserCS \notin {Word(mem, cpu.rsp + 8 * k) : k \in 0..5}
                  /\ UserSS \notin {Word(mem, cpu.rsp + 8 * k) : k \in 0..5}

C17_FlagsMatchConsumers == [][C17_Step]_vars

\* C17 as stated: every layer the trap-return path consumes, the one
\* set_signal_entry builds included, holds flags with interrupts enabled and
\* the user selectors.
C17_EveryTrapLayerHasSelectors ==
    \A i \in Ids :
        run[i] # "Running" => LayersMatchConsumers(mem, threads[i].rsp, TRUE)

\* The core has returned to user mode from the layer of a signal delivered to
\* a thread that was not running.
C17_ReturnedFromSignalLayer ==
    /\ last.op = "signal_handler_entry"
    /\ pc = "user"
    /\ cpu.rflags = RFLAGS_IF_ON
    /\ cpu.rip = NthSignal(0)[1]

\* ------------------------------------------------------------- the FS base
\* C18: after a switch the FS base register holds the fsbase of next, already
\* when next starts to run, and so the fsbase of the running thread; a child
\* of fork has the fsbase its parent had at the call, and a thread of the
\* other three constructors has fsbase 0.
C18_Step ==
    /\ last'.op = "switch_thread" =>
           /\ run'[last'.b] = "Running"
           /\ fsbase_reg' = threads'[last'.b].fsbase
    /\ \A i \in DOMAIN threads' :
           /\ run'[i] = "Running" => fsbase_reg' = threads'[i].fsbase
           /\ i \notin DOMAIN threads =>
                  threads'[i].fsbase =
                      IF last'.op = "fork" THEN threads[last'.b].fsbase ELSE 0

C18_FsbaseOfRunning == [][C18_Step]_vars

\* A switch has entered a child of fork whose parent had a nonzero fsbase,
\* from a thread whose fsbase is another value.
C18_SwitchedIntoChild ==
    /\ last.op = "switch_thread"
    /\ pc = "forked_child_entry"
    /\ threads[last.b].fsbase \in TlsBases
    /\ threads[last.a].fsbase = 0
    /\ fsbase_reg \in TlsBases

\* ------------------------------------------------- the stack fork builds on
\* Right after fork: the address of the page fork allocated for the kernel
\* stack of the child, the second of its four allocations.
ForkStackBase == as_vaddr((next_page - 3) * PAGE_SIZE)

\* C19 as stated: the 21 words fork pushes and the rsp of the child lie in
\* [base, base + PAGE_SIZE), base being the address of the page fork
\* allocated for the stack.
C19_ForkWritesInsidePage ==
    Made("fork") =>
        LET base == ForkStackBase
            rsp == threads[last.a].rsp
        IN  \A k \in 0..20 :
                /\ rsp + 8 * k >= base
                /\ rsp + 8 * k < base + PAGE_SIZE

\* ------------------------------------------- the room set_signal_entry has
\* The address of the page that holds the frame thread i was built with: the
\* one above the signal frames stacked on it.
RegionBase(i) ==
    LET rsp == threads[i].rsp
        built == PopSignalLayers(rsp, SignalDepth(mem, rsp))
    IN  (built \div PAGE_SIZE) * PAGE_SIZE

\* C20 as stated: on the path of the current process the pushes stay inside
\* the eight words of tmp; on the other path, after any number of deliveries
\* to a thread that stays suspended, its rsp is not below the base of the page
\* its frames were built on.
C20_PushesStayInsideRegion ==
    /\ (sig.active /\ sig.is_current_process) =>
           /\ sig.rsp >= sig.start - 8 * SIGNAL_TMP_LEN
           /\ sig.rsp <= sig.start
    /\ \A i \in Ids :
           (run[i] # "Running" /\ threads[i].rsp # 0) =>
               threads[i].rsp >= RegionBase(i)

====
